---- MODULE Spec2Model ----
(***************************************************************************)
(* The three interactive guessing games of the repository:                 *)
(*   Final_Submission/main_new.py  attribute game, declared property kinds *)
(*   main.py                       attribute game, kinds read off values   *)
(*   category_example_20_q.py      letter game with category tiebreakers   *)
(* A noun is its name, a tuple of one-character strings, so that the       *)
(* letter predicates and sorted() work on the characters.                  *)
(***************************************************************************)
EXTENDS Integers, Sequences, FiniteSets, TLC

\* ---------------------------------------------------------------- bounds
\* at most MaxNouns nouns in the loaded (category-filtered) data
MaxNouns == 3
\* scale ratings are 1..MaxVal
MaxVal == 3

\* ------------------------------------------------------- strings of chars
UPPERCASE ==
  <<"A","B","C","D","E","F","G","H","I","J","K","L","M","N","O","P","Q","R","S","T","U","V","W","X","Y","Z">>
LOWERCASE ==
  <<"a","b","c","d","e","f","g","h","i","j","k","l","m","n","o","p","q","r","s","t","u","v","w","x","y","z">>
DIGITS ==
  <<"0","1","2","3","4","5","6","7","8","9">>
\* code point order: space < digits < upper case < lower case
Alphabet ==
  <<" ">> \o DIGITS \o UPPERCASE \o LOWERCASE

Ord(c) ==
  CHOOSE i \in 1..Len(Alphabet) : Alphabet[i] = c

\* str.lower() on one character
LowerChar(c) ==
  IF \E i \in 1..Len(UPPERCASE) : UPPERCASE[i] = c
  THEN LOWERCASE[CHOOSE i \in 1..Len(UPPERCASE) : UPPERCASE[i] = c]
  ELSE c

\* str.lower()
Lower(n) ==
  [i \in 1..Len(n) |-> LowerChar(n[i])]

\* w in n  (substring test)
IsSubstr(w, n) ==
  \E k \in 0..(Len(n) - Len(w)) : \A i \in 1..Len(w) : n[k + i] = w[i]

\* c.isdigit()
IsDigit(c) ==
  \E i \in 1..Len(DIGITS) : DIGITS[i] = c

\* n.replace(' ', '')
RECURSIVE StripSpaces(_)
StripSpaces(n) ==
  IF n = <<>> THEN <<>>
  ELSE IF Head(n) = " " THEN StripSpaces(Tail(n))
       ELSE <<Head(n)>> \o StripSpaces(Tail(n))

\* a < b for Python strings (lexicographic on code points)
RECURSIVE StrLess(_, _)
StrLess(a, b) ==
  IF b = <<>> THEN FALSE
  ELSE IF a = <<>> THEN TRUE
  ELSE IF Head(a) = Head(b) THEN StrLess(Tail(a), Tail(b))
  ELSE Ord(Head(a)) < Ord(Head(b))

\* ------------------------------------------------------------ input data
\* the nouns a data file may hold
Names ==
  { <<"c","a","t">>, <<"d","o","g">>, <<"Z","x">>, <<"z","z">>, <<"o","h","i","o">>,
    <<"z","u">>, <<"z","k">>, <<"z","y">>, <<"z","w">>, <<"z","h">> }

\* file order of the records (dict insertion order of noun_data)
FileOrder ==
  << <<"c","a","t">>, <<"d","o","g">>, <<"Z","x">>, <<"z","z">>, <<"o","h","i","o">>,
     <<"z","u">>, <<"z","k">>, <<"z","y">>, <<"z","w">>, <<"z","h">> >>

\* the properties of the enumerated data sets
BaseProps ==
  {"fast", "size"}

\* nineteen more boolean properties, for the data set that outlasts the 19 turns
CapOrder ==
  <<"p01", "p02", "p03", "p04", "p05", "p06", "p07", "p08", "p09", "p10",
    "p11", "p12", "p13", "p14", "p15", "p16", "p17", "p18", "p19">>

CapProps ==
  { CapOrder[i] : i \in 1..Len(CapOrder) }

\* property_types of main_new.py: the "property_type" field of the records
property_types ==
  [p \in BaseProps \cup CapProps |-> IF p = "size" THEN "scale" ELSE "boolean"]

Props ==
  DOMAIN property_types

RatingsOf(prop) ==
  IF property_types[prop] = "boolean" THEN {0, 1} ELSE 1..MaxVal

\* noun -> {property: rating}; a noun may lack a property, but it has at least
\* the one of the record that entered it in noun_data
RatingMaps ==
  UNION { { f \in [D -> 0..MaxVal] : \A p \in D : f[p] \in RatingsOf(p) } :
          D \in SUBSET BaseProps \ {{}} }

\* a rating map as a number, to list data sets up to a renaming of the nouns
RatingCode(m) ==
  (IF "fast" \in DOMAIN m THEN m["fast"] + 1 ELSE 0) * (MaxVal + 1)
    + (IF "size" \in DOMAIN m THEN m["size"] ELSE 0)

\* properties = set(property_types.keys()): the properties some record names
properties(nd) ==
  { p \in Props : \E n \in DOMAIN nd : p \in DOMAIN nd[n] }

\* the iteration orders a set can have
Perms(S) ==
  { f \in [1..Cardinality(S) -> S] : \A x \in S : \E i \in 1..Cardinality(S) : f[i] = x }

\* Python None for a property or a kind; None / a value for the other fields
NoneProp == "None"
None == <<>>
Some(x) == <<x>>

Abs(x) ==
  IF x < 0 THEN -x ELSE x

\* ----------------------------------------------- catalogs of the letter game
EXERCISE_WORDS ==
  <<
    <<"p","r","e","s","s">>, <<"c","u","r","l">>, <<"s","q","u","a","t">>, <<"l","i","f","t">>,
    <<"p","u","l","l">>, <<"p","u","s","h">>, <<"r","o","w">>, <<"r","a","i","s","e">>,
    <<"e","x","t","e","n","s","i","o","n">>, <<"l","u","n","g","e">>, <<"b","r","i","d","g","e">>,
    <<"p","l","a","n","k">>, <<"c","r","u","n","c","h">>, <<"b","u","r","p","e","e">>,
    <<"j","u","m","p">>
  >>

MOTORCYCLE_WORDS ==
  <<
    <<"n","i","n","j","a">>, <<"c","b","r">>, <<"g","s","x","r">>, <<"d","u","k","e">>,
    <<"m","o","n","s","t","e","r">>, <<"p","a","n","i","g","a","l","e">>, <<"r","1">>, <<"r","6">>,
    <<"z","x">>, <<"h","a","y","a","b","u","s","a">>, <<"f","i","r","e","b","l","a","d","e">>
  >>

STATE_NAMES ==
  {
    <<"a","l","a","b","a","m","a">>, <<"a","l","a","s","k","a">>, <<"a","r","i","z","o","n","a">>,
    <<"a","r","k","a","n","s","a","s">>, <<"c","a","l","i","f","o","r","n","i","a">>,
    <<"c","o","l","o","r","a","d","o">>, <<"c","o","n","n","e","c","t","i","c","u","t">>,
    <<"d","e","l","a","w","a","r","e">>, <<"f","l","o","r","i","d","a">>,
    <<"g","e","o","r","g","i","a">>, <<"h","a","w","a","i","i">>, <<"i","d","a","h","o">>,
    <<"i","l","l","i","n","o","i","s">>, <<"i","n","d","i","a","n","a">>, <<"i","o","w","a">>,
    <<"k","a","n","s","a","s">>, <<"k","e","n","t","u","c","k","y">>,
    <<"l","o","u","i","s","i","a","n","a">>, <<"m","a","i","n","e">>,
    <<"m","a","r","y","l","a","n","d">>, <<"m","a","s","s","a","c","h","u","s","e","t","t","s">>,
    <<"m","i","c","h","i","g","a","n">>, <<"m","i","n","n","e","s","o","t","a">>,
    <<"m","i","s","s","i","s","s","i","p","p","i">>, <<"m","i","s","s","o","u","r","i">>,
    <<"m","o","n","t","a","n","a">>, <<"n","e","b","r","a","s","k","a">>,
    <<"n","e","v","a","d","a">>, <<"n","e","w"," ","h","a","m","p","s","h","i","r","e">>,
    <<"n","e","w"," ","j","e","r","s","e","y">>, <<"n","e","w"," ","m","e","x","i","c","o">>,
    <<"n","e","w"," ","y","o","r","k">>,
    <<"n","o","r","t","h"," ","c","a","r","o","l","i","n","a">>,
    <<"n","o","r","t","h"," ","d","a","k","o","t","a">>, <<"o","h","i","o">>,
    <<"o","k","l","a","h","o","m","a">>, <<"o","r","e","g","o","n">>,
    <<"p","e","n","n","s","y","l","v","a","n","i","a">>,
    <<"r","h","o","d","e"," ","i","s","l","a","n","d">>,
    <<"s","o","u","t","h"," ","c","a","r","o","l","i","n","a">>,
    <<"s","o","u","t","h"," ","d","a","k","o","t","a">>, <<"t","e","n","n","e","s","s","e","e">>,
    <<"t","e","x","a","s">>, <<"u","t","a","h">>, <<"v","e","r","m","o","n","t">>,
    <<"v","i","r","g","i","n","i","a">>, <<"w","a","s","h","i","n","g","t","o","n">>,
    <<"w","e","s","t"," ","v","i","r","g","i","n","i","a">>,
    <<"w","i","s","c","o","n","s","i","n">>, <<"w","y","o","m","i","n","g">>
  }

LETTER_STRATEGY ==
  <<
    [key |-> "contains_r", kind |-> "contains", ch |-> "r"],
    [key |-> "contains_i", kind |-> "contains", ch |-> "i"],
    [key |-> "contains_o", kind |-> "contains", ch |-> "o"],
    [key |-> "contains_t", kind |-> "contains", ch |-> "t"],
    [key |-> "contains_n", kind |-> "contains", ch |-> "n"],
    [key |-> "starts_s", kind |-> "starts", ch |-> "s"],
    [key |-> "starts_c", kind |-> "starts", ch |-> "c"],
    [key |-> "starts_b", kind |-> "starts", ch |-> "b"],
    [key |-> "starts_p", kind |-> "starts", ch |-> "p"],
    [key |-> "starts_m", kind |-> "starts", ch |-> "m"],
    [key |-> "starts_d", kind |-> "starts", ch |-> "d"],
    [key |-> "starts_a", kind |-> "starts", ch |-> "a"],
    [key |-> "contains_e", kind |-> "contains", ch |-> "e"],
    [key |-> "contains_a", kind |-> "contains", ch |-> "a"],
    [key |-> "contains_l", kind |-> "contains", ch |-> "l"],
    [key |-> "contains_s", kind |-> "contains", ch |-> "s"],
    [key |-> "ends_e", kind |-> "ends", ch |-> "e"],
    [key |-> "ends_r", kind |-> "ends", ch |-> "r"],
    [key |-> "ends_n", kind |-> "ends", ch |-> "n"],
    [key |-> "ends_t", kind |-> "ends", ch |-> "t"],
    [key |-> "ends_s", kind |-> "ends", ch |-> "s"],
    [key |-> "has_space", kind |-> "has_space", ch |-> " "],
    [key |-> "long_word", kind |-> "long_word", ch |-> " "]
  >>

\* ------------------------------------------- main_new.py: best_question
\* dict.get(key) and dict.get(key, default)
Get(m, p) ==
  IF p \in DOMAIN m THEN Some(m[p]) ELSE None

GetDefault(m, p, d) ==
  IF p \in DOMAIN m THEN m[p] ELSE d

\* [(noun, noun_data[noun][prop]) for noun in remaining_nouns if prop in noun_data[noun]]
\* it is the order in which the set remaining_nouns is iterated
ValuesOf(nd, it, prop) ==
  LET having == SelectSeq(it, LAMBDA n : prop \in DOMAIN nd[n])
  IN  [i \in 1..Len(having) |-> <<having[i], nd[having[i]][prop]>>]

\* len([v for _, v in values if v == x])
CountEq(values, x) ==
  Cardinality({ i \in 1..Len(values) : values[i][2] = x })

\* len([v for _, v in values if v > threshold])
CountGreater(values, threshold) ==
  Cardinality({ i \in 1..Len(values) : values[i][2] > threshold })

\* F(x) with x evaluated once: TLC evaluates an operator's argument again at
\* each use of it wherever it does not keep the value (inside ENABLED)
Once(F(_), x) ==
  CHOOSE r \in { F(v) : v \in {x} } : TRUE

\* sorted(values, key=lambda x: x[1]) is stable
RECURSIVE InsertByValue(_, _)
InsertByValue(x, s) ==
  IF s = <<>> THEN <<x>>
  ELSE IF x[2] < Head(s)[2] THEN <<x>> \o s
  ELSE <<Head(s)>> \o InsertByValue(x, Tail(s))

RECURSIVE SortedByValue(_)
SortedByValue(values) ==
  IF values = <<>> THEN <<>>
  ELSE Once(LAMBDA s : InsertByValue(values[Len(values)], s),
            SortedByValue(SubSeq(values, 1, Len(values) - 1)))

\* best_split_score = float("inf")
Inf == None

\* split_score < best_split_score
ScoreLess(split_score, best_split_score) ==
  best_split_score = Inf \/ split_score < best_split_score[1]

\* the locals of best_question before the loop
NoBest ==
  [best_property |-> NoneProp, best_split_score |-> Inf, best_threshold |-> None,
   best_type |-> NoneProp, best_reference |-> None]

\* the loop without its skip of asked properties
IsAskedNever(prop, asked) ==
  FALSE

\* if prop in asked_properties: continue
IsAsked(prop, asked) ==
  prop \in asked

\* the boolean branch of the loop body
BooleanBranch(best, prop, values) ==
  LET yes == CountEq(values, 1)
      no == CountEq(values, 0)
      split_score == Abs(yes - no)
  IN  IF ScoreLess(split_score, best.best_split_score)
      THEN [best EXCEPT !.best_property = prop, !.best_split_score = Some(split_score),
                        !.best_type = "binary"]
      ELSE best

\* for i in range(1, len(sorted_values)): i is the 1-based index here
FirstScaleIndex == 2

\* the noun of the entry before the threshold's
ReferenceBefore(sorted_values, i) ==
  sorted_values[i - 1][1]

\* best_reference = sorted_values[i][0]
ReferenceAt(sorted_values, i) ==
  sorted_values[i][1]

RECURSIVE ScaleLoop(_, _, _, _, _)
ScaleLoop(best, prop, values, sorted_values, i) ==
  IF i > Len(sorted_values) THEN best
  ELSE LET threshold == sorted_values[i][2]
           yes == CountGreater(values, threshold)
           no == Len(values) - yes
           split_score == Abs(yes - no)
           next == IF 0 < yes /\ yes < Len(values)
                      /\ ScoreLess(split_score, best.best_split_score)
                   THEN [best_property |-> prop, best_split_score |-> Some(split_score),
                         best_threshold |-> Some(threshold), best_type |-> "continuous",
                         best_reference |-> Some(ReferenceAt(sorted_values, i))]
                   ELSE best
       IN  Once(LAMBDA b : ScaleLoop(b, prop, values, sorted_values, i + 1), next)

\* the scale branch of the loop body
ScaleBranch(best, prop, values) ==
  Once(LAMBDA sorted_values : ScaleLoop(best, prop, values, sorted_values, FirstScaleIndex),
       SortedByValue(values))

\* for prop in properties: order is the iteration order of the set properties
RECURSIVE PropLoop(_, _, _, _, _, _)
PropLoop(best, nd, it, asked, order, k) ==
  IF k > Len(order) THEN best
  ELSE LET prop == order[k]
           values == ValuesOf(nd, it, prop)
           next == IF IsAsked(prop, asked) THEN best
                   ELSE IF property_types[prop] = "boolean" THEN BooleanBranch(best, prop, values)
                   ELSE IF property_types[prop] = "scale" THEN ScaleBranch(best, prop, values)
                   ELSE best
       IN  Once(LAMBDA b : PropLoop(b, nd, it, asked, order, k + 1), next)

\* return best_property, best_type, best_threshold, best_reference
best_question(nd, it, asked, order) ==
  LET best == PropLoop(NoBest, nd, it, asked, order, 1)
  IN  [best_property |-> best.best_property, best_type |-> best.best_type,
       best_threshold |-> best.best_threshold, best_reference |-> best.best_reference]

NoQuestion ==
  [best_property |-> NoneProp, best_type |-> NoneProp, best_threshold |-> None,
   best_reference |-> None]

\* ------------------------------------------------ main_new.py: play_game
\* the loop condition one turn longer
LoopConditionTwenty(count, n) ==
  count < 20 /\ n > 1

\* the loop condition with >= 1 in place of > 1
LoopConditionOneLeft(count, n) ==
  count < 19 /\ n >= 1

\* while question_count < 19 and len(remaining_nouns) > 1
LoopCondition(count, n) ==
  count < 19 /\ n > 1

\* what the user may type at a prompt
Tokens ==
  {"1", "2", "0", "x"}

\* int(input(...)) raises ValueError unless the text is an integer literal
IsIntLiteral(tok) ==
  tok \in {"0", "1", "2"}

IntOf(tok) ==
  CASE tok = "0" -> 0 [] tok = "1" -> 1 [] tok = "2" -> 2

\* the filter with >= threshold on a yes answer
KeepsNounAtThreshold(nd, n, q, ans) ==
  IF q.best_type = "binary"
  THEN Get(nd[n], q.best_property) = Some(IF ans = 1 THEN 1 ELSE 0)
  ELSE IF q.best_type = "continuous"
  THEN IF ans = 1
       THEN GetDefault(nd[n], q.best_property, 0) >= q.best_threshold[1]
       ELSE GetDefault(nd[n], q.best_property, 0) <= q.best_threshold[1]
  ELSE TRUE

\* the condition of the set comprehensions that filter remaining_nouns
KeepsNoun(nd, n, q, ans) ==
  IF q.best_type = "binary"
  THEN Get(nd[n], q.best_property) = Some(IF ans = 1 THEN 1 ELSE 0)
  ELSE IF q.best_type = "continuous"
  THEN IF ans = 1
       THEN GetDefault(nd[n], q.best_property, 0) > q.best_threshold[1]
       ELSE GetDefault(nd[n], q.best_property, 0) <= q.best_threshold[1]
  ELSE TRUE

\* the filter drawing from all of noun_data instead of remaining_nouns
FilterNounsOfAll(nd, remaining, q, ans) ==
  { n \in DOMAIN nd : KeepsNoun(nd, n, q, ans) }

\* remaining_nouns = {noun for noun in remaining_nouns if ...}
FilterNouns(nd, remaining, q, ans) ==
  { n \in remaining : KeepsNoun(nd, n, q, ans) }

\* --------------------------------------------- main.py: best_question
\* The wide file of main.py holds true/false for a boolean property and a
\* number for a scale property; a boolean rating b is written 1 for true and
\* 0 for false here, and isinstance(v, bool) is read off the property.
IsBoolValue(prop) ==
  property_types[prop] = "boolean"

\* all(isinstance(v, bool) for v in values)
AllBool(prop, values) ==
  values = <<>> \/ IsBoolValue(prop)

\* the binary branch of main.py
MainBooleanBranch(best, prop, values) ==
  LET yes == CountEq(values, 1)
      no == Len(values) - yes
      split_score == Abs(yes - no)
  IN  IF ScoreLess(split_score, best.best_split_score)
      THEN [best EXCEPT !.best_property = prop, !.best_split_score = Some(split_score),
                        !.best_type = "binary"]
      ELSE best

\* for threshold in range(2, 9)
RECURSIVE MainThresholdLoop(_, _, _, _)
MainThresholdLoop(best, prop, values, threshold) ==
  IF threshold >= 9 THEN best
  ELSE LET yes == CountGreater(values, threshold)
           no == Len(values) - yes
           split_score == Abs(yes - no)
           next == IF 0 < yes /\ yes < Len(values)
                      /\ ScoreLess(split_score, best.best_split_score)
                   THEN [best EXCEPT !.best_property = prop,
                                     !.best_split_score = Some(split_score),
                                     !.best_threshold = Some(threshold),
                                     !.best_type = "continuous"]
                   ELSE best
       IN  Once(LAMBDA b : MainThresholdLoop(b, prop, values, threshold + 1), next)

RECURSIVE MainPropLoop(_, _, _, _, _, _)
MainPropLoop(best, nd, it, asked, order, k) ==
  IF k > Len(order) THEN best
  ELSE LET prop == order[k]
           values == ValuesOf(nd, it, prop)
           next == IF prop \in asked THEN best
                   ELSE IF AllBool(prop, values) THEN MainBooleanBranch(best, prop, values)
                   ELSE MainThresholdLoop(best, prop, values, 2)
       IN  Once(LAMBDA b : MainPropLoop(b, nd, it, asked, order, k + 1), next)

\* reference_noun = next((noun for noun in remaining_nouns
\*                        if noun_data[noun].get(best_prop) == threshold), None)
MainReference(nd, it, prop, threshold) ==
  LET hits == SelectSeq(it, LAMBDA n : Get(nd[n], prop) = threshold)
  IN  IF hits = <<>> THEN None ELSE Some(hits[1])

\* best_question of main.py, with the reference noun play_game derives from it
best_question_main(nd, it, asked, order) ==
  LET best == MainPropLoop(NoBest, nd, it, asked, order, 1)
  IN  [best_property |-> best.best_property, best_type |-> best.best_type,
       best_threshold |-> best.best_threshold,
       best_reference |-> IF best.best_type = "continuous"
                          THEN MainReference(nd, it, best.best_property, best.best_threshold)
                          ELSE None]

\* noun_data[noun].get(best_prop) is (answer == 1)
IsSameObject(prop, got, flag) ==
  got # None /\ IsBoolValue(prop) /\ (got[1] = 1) = flag

\* the set comprehensions of main.py that filter remaining_nouns
MainFilterNouns(nd, remaining, q, ans) ==
  IF q.best_type = "binary"
  THEN { n \in remaining : IsSameObject(q.best_property, Get(nd[n], q.best_property), ans = 1) }
  ELSE IF q.best_type = "continuous"
  THEN IF ans = 1
       THEN { n \in remaining : GetDefault(nd[n], q.best_property, 0) > q.best_threshold[1] }
       ELSE { n \in remaining : GetDefault(nd[n], q.best_property, 0) <= q.best_threshold[1] }
  ELSE remaining

\* ------------------------------------ category_example_20_q.py: selectors
\* test_fn of a LETTER_STRATEGY entry
LetterTest(e, n) ==
  CASE e.kind = "contains" -> \E i \in 1..Len(n) : LowerChar(n[i]) = e.ch
    [] e.kind = "starts" -> LowerChar(n[1]) = e.ch
    [] e.kind = "ends" -> LowerChar(n[Len(n)]) = e.ch
    [] e.kind = "has_space" -> \E i \in 1..Len(n) : n[i] = " "
    [] e.kind = "long_word" -> Len(StripSpaces(n)) >= 10

\* n[0] and n[-1] raise IndexError on an empty name
LetterTestRaises(e, n) ==
  e.kind \in {"starts", "ends"} /\ n = <<>>

\* CATEGORIES, in insertion order
CATEGORY_KEYS ==
  <<"exercise", "motorcycle", "state">>

\* cat_info['test']
CategoryTest(key, n) ==
  CASE key = "exercise" ->
         \E i \in 1..Len(EXERCISE_WORDS) : IsSubstr(EXERCISE_WORDS[i], Lower(n))
    [] key = "motorcycle" ->
         \/ \E i \in 1..Len(MOTORCYCLE_WORDS) : IsSubstr(MOTORCYCLE_WORDS[i], Lower(n))
         \/ \E i \in 1..Len(n) : IsDigit(n[i])
    [] key = "state" -> Lower(n) \in STATE_NAMES

Min(a, b) == IF a < b THEN a ELSE b
Max(a, b) == IF a < b THEN b ELSE a

\* min(len(yes), len(no)) / max(len(yes), len(no)) as the fraction <<num, den>>
SplitRatio(yes_nouns, no_nouns) ==
  <<Min(Len(yes_nouns), Len(no_nouns)), Max(Len(yes_nouns), Len(no_nouns))>>

\* a >= b in place of a > b
RatioGreaterOrEqual(a, b) ==
  a[1] * b[2] >= b[1] * a[2]

\* a > b for fractions with positive denominators
RatioGreater(a, b) ==
  a[1] * b[2] > b[1] * a[2]

RECURSIVE LetterLoop(_, _, _, _, _)
LetterLoop(best_question_, best_ratio, cands, asked, k) ==
  IF k > Len(LETTER_STRATEGY) THEN best_question_
  ELSE LET e == LETTER_STRATEGY[k]
           raises == \E i \in 1..Len(cands) : LetterTestRaises(e, cands[i])
           yes_nouns == SelectSeq(cands, LAMBDA n : LetterTest(e, n))
           no_nouns == SelectSeq(cands, LAMBDA n : ~LetterTest(e, n))
           skip == e.key \in asked \/ raises \/ yes_nouns = <<>> \/ no_nouns = <<>>
           better == ~skip /\ RatioGreater(SplitRatio(yes_nouns, no_nouns), best_ratio)
       IN  IF better
           THEN LetterLoop(Some([key |-> e.key, kind |-> "LETTER", yes_nouns |-> yes_nouns,
                                 no_nouns |-> no_nouns]),
                           SplitRatio(yes_nouns, no_nouns), cands, asked, k + 1)
           ELSE LetterLoop(best_question_, best_ratio, cands, asked, k + 1)

\* best_ratio = 0
select_best_letter_question(cands, asked_letters_) ==
  LetterLoop(None, <<0, 1>>, cands, asked_letters_, 1)

\* split_ratio > 0.15
RECURSIVE CategoryLoop(_, _, _)
CategoryLoop(cands, asked, k) ==
  IF k > Len(CATEGORY_KEYS) THEN None
  ELSE LET key == CATEGORY_KEYS[k]
           yes_nouns == SelectSeq(cands, LAMBDA n : CategoryTest(key, n))
           no_nouns == SelectSeq(cands, LAMBDA n : ~CategoryTest(key, n))
       IN  IF key \in asked \/ yes_nouns = <<>> \/ no_nouns = <<>>
           THEN CategoryLoop(cands, asked, k + 1)
           ELSE IF RatioGreater(SplitRatio(yes_nouns, no_nouns), <<15, 100>>)
           THEN Some([key |-> key, kind |-> "CATEGORY", yes_nouns |-> yes_nouns,
                      no_nouns |-> no_nouns])
           ELSE CategoryLoop(cands, asked, k + 1)

select_category_question(cands, asked_categories_) ==
  CategoryLoop(cands, asked_categories_, 1)

\* sorted(candidates)[0]
FirstSorted(cands) ==
  CHOOSE n \in { cands[i] : i \in 1..Len(cands) } :
    \A i \in 1..Len(cands) : cands[i] = n \/ StrLess(n, cands[i])

\* range of a list
Range(s) ==
  { s[i] : i \in 1..Len(s) }

\* ------------------------------------------------------------------ state
VARIABLES
  script,            \* which of the three programs runs
  noun_data,         \* noun -> {property: rating}, as loaded
  prop_order,        \* iteration order of the module-level set properties
  remaining_nouns,   \* attribute games: the candidate set
  asked_properties,  \* attribute games
  question,          \* attribute games: what best_question returned
  candidates,        \* letter game: the candidate list
  asked_letters,     \* letter game
  asked_categories,  \* letter game
  result,            \* letter game: letter_result / category_result
  question_count,
  pc,                \* "loop" | "await" | "done" | "crashed"
  typed,             \* the text read by the last input()
  guess,
  transcript,        \* identifiers of the questions printed so far
  answers,           \* attribute games: the questions answered, each with its answer
  loader,            \* the data loading of main_new.py (lines 28-49)
  conv,              \* Json_converter.py: convert_long_to_wide_jsonl
  merge,             \* make_single_file_from_nouns.py
  traversal,         \* the category-tree traversal of main_new.py and parse_categories.py
  classifier,        \* classify_nouns.py
  categorizer        \* noun_categorizer.py

\* the programs that are not games
batchVars ==
  <<loader, conv, merge, traversal, classifier, categorizer>>

vars ==
  <<script, noun_data, prop_order, remaining_nouns, asked_properties, question, candidates,
    asked_letters, asked_categories, result, question_count, pc, typed, guess, transcript,
    answers, batchVars>>

\* a program that does not run
Idle ==
  [pc |-> "idle"]

\* the data of an attribute game: the first k <= MaxNouns names of the file, each
\* with some ratings. The attribute games treat all nouns alike, so one data set
\* stands for those that differ from it by a renaming of the nouns: the one whose
\* rating maps are in non-decreasing RatingCode order.
AttrDataSets ==
  UNION { { nd \in [{ FileOrder[i] : i \in 1..k } -> RatingMaps] :
              \A i \in 1..(k - 1) :
                RatingCode(nd[FileOrder[i]]) <= RatingCode(nd[FileOrder[i + 1]]) } :
          k \in 0..Min(MaxNouns, Len(FileOrder)) }

\* the data of the letter game, which reads only the keys of noun_data: at most
\* MaxNouns of the names
LetterDataSets ==
  UNION { [S -> {<<>>}] : S \in { T \in SUBSET Names : Cardinality(T) <= MaxNouns } }

\* the names that no predicate of the letter game tells apart
PlainOrder ==
  << <<"z","z">>, <<"z","u">>, <<"z","k">>, <<"z","y">>, <<"z","w">>, <<"z","h">> >>

\* the larger files of the letter game, up to a renaming of those names
WideDataSets ==
  UNION { [S -> {<<>>}] :
          S \in { T \in SUBSET Names :
                    /\ Cardinality(T) > MaxNouns
                    /\ \A i \in 2..Len(PlainOrder) :
                         PlainOrder[i] \in T => PlainOrder[i - 1] \in T } }

\* list(noun_data.keys()): the nouns in file order
KeysList(nd) ==
  SelectSeq(FileOrder, LAMBDA n : n \in DOMAIN nd)

\* "unknown"
UNKNOWN ==
  <<"u","n","k","n","o","w","n">>

\* the guess left unset when no candidate remains
GuessesUnset(remaining) ==
  IF remaining # {} THEN remaining ELSE {None}

\* guess = list(remaining_nouns)[0] if remaining_nouns else "unknown":
\* the values guess can take, the set yielding any member first
Guesses(remaining) ==
  IF remaining # {} THEN remaining ELSE {UNKNOWN}

\* the state after the locals of play_game are set
GameStart(sc, nd) ==
  /\ script = sc
  /\ noun_data = nd
  /\ remaining_nouns = IF sc = "letter" THEN {} ELSE DOMAIN nd
  /\ asked_properties = {}
  /\ question = NoQuestion
  /\ candidates = IF sc = "letter" THEN KeysList(nd) ELSE <<>>
  /\ asked_letters = {}
  /\ asked_categories = {}
  /\ result = None
  /\ question_count = 0
  /\ pc = "loop"
  /\ typed = ""
  /\ guess = None
  /\ transcript = <<>>
  /\ answers = <<>>

\* a game, the other programs not running
Start(sc, nd) ==
  /\ GameStart(sc, nd)
  /\ loader = Idle /\ conv = Idle /\ merge = Idle
  /\ traversal = Idle /\ classifier = Idle /\ categorizer = Idle

\* no game
NoGame ==
  /\ GameStart("none", << >>)
  /\ prop_order = <<>>

InitNew ==
  \E nd \in AttrDataSets :
    /\ Start("main_new", nd)
    /\ prop_order \in Perms(properties(nd))

InitLetter ==
  \E nd \in LetterDataSets :
    /\ Start("letter", nd)
    /\ prop_order = <<>>

InitMain ==
  \E nd \in AttrDataSets :
    /\ Start("main", nd)
    /\ prop_order \in Perms(properties(nd))

InitWide ==
  \E nd \in WideDataSets :
    /\ Start("letter", nd)
    /\ prop_order = <<>>

Init ==
  InitNew \/ InitLetter

\* main_new.py on a file of two nouns rated 1 on twenty boolean properties:
\* a yes answer to any of them keeps both nouns
CapData ==
  [n \in {FileOrder[1], FileOrder[2]} |-> [p \in {"fast"} \cup CapProps |-> 1]]

\* the number of nouns of a file on which two thresholds of a scale property
\* can have the same imbalance (yes 3, no 2 and yes 2, no 3)
TieNouns == 5

\* main_new.py on files of TieNouns nouns that have the property size only,
\* up to a renaming of the nouns
TieDataSets ==
  { nd \in [{ FileOrder[i] : i \in 1..TieNouns } -> [{"size"} -> 1..MaxVal]] :
      \A i \in 1..(TieNouns - 1) : nd[FileOrder[i]]["size"] <= nd[FileOrder[i + 1]]["size"] }

InitTie ==
  \E nd \in TieDataSets :
    /\ Start("main_new", nd)
    /\ prop_order = <<"size">>

InitCap ==
  /\ Start("main_new", CapData)
  /\ prop_order = <<"fast">> \o CapOrder

letterVars ==
  <<candidates, asked_letters, asked_categories, result>>

attrVars ==
  <<remaining_nouns, asked_properties, question>>

dataVars ==
  <<script, noun_data, prop_order>>

\* the variables of the games
gameVars ==
  <<dataVars, letterVars, attrVars, question_count, pc, typed, guess, transcript, answers>>

\* ------------------------------------------------ main_new.py: play_game
\* lines 98-113: the loop head up to the input() of the question
NewAsk ==
  /\ script = "main_new" /\ pc = "loop"
  /\ LoopCondition(question_count, Cardinality(remaining_nouns))
  /\ \E it \in Perms(remaining_nouns) :
       \E q \in {best_question(noun_data, it, asked_properties, prop_order)} :
           /\ q.best_property # NoneProp
           /\ question' = q
           /\ transcript' = Append(transcript, q.best_property)
  /\ pc' = "await"
  /\ UNCHANGED <<batchVars, dataVars, answers, letterVars, remaining_nouns, asked_properties, question_count,
                 typed, guess>>

\* lines 106/113-126: int(input()) and the rest of the loop body
NewAnswer ==
  /\ script = "main_new" /\ pc = "await"
  /\ \E tok \in Tokens :
       /\ typed' = tok
       /\ IF IsIntLiteral(tok)
          THEN /\ remaining_nouns' = FilterNouns(noun_data, remaining_nouns, question, IntOf(tok))
               /\ asked_properties' = asked_properties \cup {question.best_property}
               /\ question_count' = question_count + 1
               /\ answers' = Append(answers, [question |-> question, answer |-> IntOf(tok)])
               /\ pc' = "loop"
          ELSE /\ pc' = "crashed"
               /\ UNCHANGED <<remaining_nouns, asked_properties, question_count, answers>>
  /\ UNCHANGED <<batchVars, dataVars, letterVars, question, guess, transcript>>

\* lines 98-102 leaving the loop, then lines 128-130
NewGuess ==
  /\ script = "main_new" /\ pc = "loop"
  /\ \/ ~LoopCondition(question_count, Cardinality(remaining_nouns))
     \/ \E it \in Perms(remaining_nouns) :
          best_question(noun_data, it, asked_properties, prop_order).best_property = NoneProp
  /\ guess' \in Guesses(remaining_nouns)
  /\ pc' = "done"
  /\ UNCHANGED <<batchVars, dataVars, answers, letterVars, attrVars, question_count, typed, transcript>>

\* ---------------------------------------------------- main.py: play_game
\* lines 92-107: a turn in which best_question returned a question
MainAsk ==
  /\ script = "main" /\ pc = "loop"
  /\ LoopCondition(question_count, Cardinality(remaining_nouns))
  /\ \E it \in Perms(remaining_nouns) :
       \E q \in {best_question_main(noun_data, it, asked_properties, prop_order)} :
           /\ q.best_type # NoneProp
           /\ question' = q
           /\ transcript' = Append(transcript, q.best_property)
  /\ pc' = "await"
  /\ UNCHANGED <<batchVars, dataVars, answers, letterVars, remaining_nouns, asked_properties, question_count,
                 typed, guess>>

\* lines 97/107-119
MainAnswer ==
  /\ script = "main" /\ pc = "await"
  /\ \E tok \in Tokens :
       /\ typed' = tok
       /\ IF IsIntLiteral(tok)
          THEN /\ remaining_nouns' =
                    MainFilterNouns(noun_data, remaining_nouns, question, IntOf(tok))
               /\ asked_properties' = asked_properties \cup {question.best_property}
               /\ question_count' = question_count + 1
               /\ answers' = Append(answers, [question |-> question, answer |-> IntOf(tok)])
               /\ pc' = "loop"
          ELSE /\ pc' = "crashed"
               /\ UNCHANGED <<remaining_nouns, asked_properties, question_count, answers>>
  /\ UNCHANGED <<batchVars, dataVars, letterVars, question, guess, transcript>>

\* lines 92-119 when prop_type is None: nothing is printed or read, the
\* filter is skipped, None is added to asked_properties and the turn counted
MainSkip ==
  /\ script = "main" /\ pc = "loop"
  /\ LoopCondition(question_count, Cardinality(remaining_nouns))
  /\ \E it \in Perms(remaining_nouns) :
       \E q \in {best_question_main(noun_data, it, asked_properties, prop_order)} :
           /\ q.best_type = NoneProp
           /\ question' = q
           /\ asked_properties' = asked_properties \cup {q.best_property}
  /\ question_count' = question_count + 1
  /\ UNCHANGED <<batchVars, dataVars, answers, letterVars, remaining_nouns, pc, typed, guess, transcript>>

\* lines 92, 121-123
MainGuess ==
  /\ script = "main" /\ pc = "loop"
  /\ ~LoopCondition(question_count, Cardinality(remaining_nouns))
  /\ guess' \in Guesses(remaining_nouns)
  /\ pc' = "done"
  /\ UNCHANGED <<batchVars, dataVars, answers, letterVars, attrVars, question_count, typed, transcript>>

\* ------------------------------------ category_example_20_q.py: play_game
\* lines 190-204: a letter question is found, counted and printed
LetterAsk ==
  /\ script = "letter" /\ pc = "loop"
  /\ LoopCondition(question_count, Len(candidates))
  /\ \E letter_result \in {select_best_letter_question(candidates, asked_letters)} :
         /\ letter_result # None
         /\ result' = letter_result
         /\ transcript' = Append(transcript, letter_result[1].key)
  /\ question_count' = question_count + 1
  /\ pc' = "await"
  /\ UNCHANGED <<batchVars, dataVars, answers, attrVars, candidates, asked_letters, asked_categories, typed, guess>>

\* the answer to a letter question, a no leaving the candidates as they are
LetterAnswerNoKeepsAll ==
  /\ script = "letter" /\ pc = "await" /\ result[1].kind = "LETTER"
  /\ \E tok \in Tokens :
       /\ typed' = tok
       /\ candidates' = IF tok = "1" THEN result[1].yes_nouns ELSE candidates
  /\ asked_letters' = asked_letters \cup {result[1].key}
  /\ pc' = "loop"
  /\ UNCHANGED <<batchVars, dataVars, answers, attrVars, asked_categories, result, question_count, guess,
                 transcript>>

\* lines 204-221
LetterAnswer ==
  /\ script = "letter" /\ pc = "await" /\ result[1].kind = "LETTER"
  /\ \E tok \in Tokens :
       /\ typed' = tok
       /\ candidates' = IF tok = "1" THEN result[1].yes_nouns ELSE result[1].no_nouns
  /\ asked_letters' = asked_letters \cup {result[1].key}
  /\ pc' = "loop"
  /\ UNCHANGED <<batchVars, dataVars, answers, attrVars, asked_categories, result, question_count, guess,
                 transcript>>

\* the category question without the letter questions first
CategoryAskFirst ==
  /\ script = "letter" /\ pc = "loop"
  /\ LoopCondition(question_count, Len(candidates))
  /\ \E category_result \in {select_category_question(candidates, asked_categories)} :
         /\ category_result # None
         /\ result' = category_result
         /\ transcript' = Append(transcript, category_result[1].key)
  /\ question_count' = question_count + 1
  /\ pc' = "await"
  /\ UNCHANGED <<batchVars, dataVars, answers, attrVars, candidates, asked_letters, asked_categories, typed, guess>>

\* lines 190-194, 224-231: no letter question, a category question is found
CategoryAsk ==
  /\ script = "letter" /\ pc = "loop"
  /\ LoopCondition(question_count, Len(candidates))
  /\ select_best_letter_question(candidates, asked_letters) = None
  /\ \E category_result \in {select_category_question(candidates, asked_categories)} :
         /\ category_result # None
         /\ result' = category_result
         /\ transcript' = Append(transcript, category_result[1].key)
  /\ question_count' = question_count + 1
  /\ pc' = "await"
  /\ UNCHANGED <<batchVars, dataVars, answers, attrVars, candidates, asked_letters, asked_categories, typed, guess>>

\* the answer to a category question, the key not recorded as asked
CategoryAnswerNotRecorded ==
  /\ script = "letter" /\ pc = "await" /\ result[1].kind = "CATEGORY"
  /\ \E tok \in Tokens :
       /\ typed' = tok
       /\ candidates' = IF tok = "1" THEN result[1].yes_nouns ELSE result[1].no_nouns
  /\ pc' = "loop"
  /\ UNCHANGED <<batchVars, dataVars, answers, attrVars, asked_letters, asked_categories, result,
                 question_count, guess, transcript>>

\* lines 231-247
CategoryAnswer ==
  /\ script = "letter" /\ pc = "await" /\ result[1].kind = "CATEGORY"
  /\ \E tok \in Tokens :
       /\ typed' = tok
       /\ candidates' = IF tok = "1" THEN result[1].yes_nouns ELSE result[1].no_nouns
  /\ asked_categories' = asked_categories \cup {result[1].key}
  /\ pc' = "loop"
  /\ UNCHANGED <<batchVars, dataVars, answers, attrVars, asked_letters, result, question_count, guess, transcript>>

\* lines 190, 249-280: the loop is left and the final guess is printed; the
\* reply to it only selects the message printed afterwards
LetterGuess ==
  /\ script = "letter" /\ pc = "loop"
  /\ \/ ~LoopCondition(question_count, Len(candidates))
     \/ /\ select_best_letter_question(candidates, asked_letters) = None
        /\ select_category_question(candidates, asked_categories) = None
  /\ IF candidates # <<>>
     THEN /\ guess' = FirstSorted(candidates)
          /\ question_count' = question_count + 1
     ELSE UNCHANGED <<guess, question_count>>
  /\ pc' = "done"
  /\ UNCHANGED <<batchVars, dataVars, answers, attrVars, letterVars, typed, transcript>>

NextNew ==
  NewAsk \/ NewAnswer \/ NewGuess

NextLetter ==
  LetterAsk \/ LetterAnswer \/ CategoryAsk \/ CategoryAnswer \/ LetterGuess

NextMain ==
  MainAsk \/ MainAnswer \/ MainSkip \/ MainGuess

Next ==
  NextNew \/ NextLetter

\* main_new.py and the letter game
Spec ==
  Init /\ [][Next]_vars

\* main_new.py on the files above and on the files of five sizes
SpecTie ==
  (InitNew \/ InitTie) /\ [][NextNew]_vars

\* the same, with the session that outlasts the 19 turns
SpecCap ==
  (Init \/ InitCap) /\ [][Next]_vars

\* the letter game on files of any size
SpecWide ==
  (InitLetter \/ InitWide) /\ [][NextLetter]_vars

\* the three games; a program that can take a step takes one, and the
\* user types an answer whenever one is awaited
InitLive ==
  InitNew \/ InitLetter \/ InitMain

NextLive ==
  NextNew \/ NextLetter \/ NextMain

SpecLive ==
  InitLive /\ [][NextLive]_vars /\ WF_vars(NextLive)

\* main.py
SpecMain ==
  InitMain /\ [][NextMain]_vars

\* ------------------------------- main_new.py: the data loading (28-49)
\* the bound on the records of noun_property_ratings.jsonl
MaxEntries == 2

\* the category selected by the tree traversal, and another one
LoadCategories ==
  {"selected", "other"}

\* the records a line of the file may hold
LoadEntries ==
  [noun : {FileOrder[1], FileOrder[2]}, property : BaseProps, rating : 0..MaxVal,
   property_type : {"boolean", "scale"}, category : LoadCategories]

\* sequences of at most n members of S
RECURSIVE SeqsUpTo(_, _)
SeqsUpTo(S, n) ==
  IF n = 0 THEN {<<>>}
  ELSE LET shorter == SeqsUpTo(S, n - 1)
       IN  shorter \cup { Append(q, x) : q \in { r \in shorter : Len(r) = n - 1 }, x \in S }

\* line 31: filtered_data
FilterByCategory(raw_data) ==
  SelectSeq(raw_data, LAMBDA entry : entry.category = "selected")

\* d[k] = v on a dict
Put(d, k, v) ==
  [x \in DOMAIN d \cup {k} |-> IF x = k THEN v ELSE d[x]]

\* the state after line 35
InitLoad ==
  /\ NoGame
  /\ \E raw_data \in SeqsUpTo(LoadEntries, MaxEntries) :
       loader = [pc |-> "loading", filtered_data |-> FilterByCategory(raw_data), i |-> 1,
                 noun_data |-> << >>, property_types |-> << >>, properties |-> {}]
  /\ conv = Idle /\ merge = Idle
  /\ traversal = Idle /\ classifier = Idle /\ categorizer = Idle

\* lines 36-46: one iteration of the loop over filtered_data
LoadEntry ==
  /\ loader.pc = "loading" /\ loader.i <= Len(loader.filtered_data)
  /\ LET entry == loader.filtered_data[loader.i]
         nd == loader.noun_data
         row == IF entry.noun \in DOMAIN nd THEN nd[entry.noun] ELSE << >>
     IN  loader' = [loader EXCEPT
                      !.noun_data = Put(nd, entry.noun, Put(row, entry.property, entry.rating)),
                      !.property_types = Put(loader.property_types, entry.property,
                                             entry.property_type),
                      !.i = loader.i + 1]
  /\ UNCHANGED <<dataVars, letterVars, attrVars, question_count, pc, typed, guess, transcript,
                 answers, conv, merge, traversal, classifier, categorizer>>

\* line 49: properties = set(property_types.keys()); the games follow
LoadFinish ==
  /\ loader.pc = "loading" /\ loader.i > Len(loader.filtered_data)
  /\ loader' = [loader EXCEPT !.pc = "loaded", !.properties = DOMAIN loader.property_types]
  /\ UNCHANGED <<dataVars, letterVars, attrVars, question_count, pc, typed, guess, transcript,
                 answers, conv, merge, traversal, classifier, categorizer>>

NextLoad ==
  LoadEntry \/ LoadFinish

\* the data loading of main_new.py
SpecLoad ==
  InitLoad /\ [][NextLoad]_vars

\* ------------------------- Json_converter.py: convert_long_to_wide_jsonl
\* the bound on the rows of the long file
MaxRows == 2

\* str.strip() on a noun
RECURSIVE LStrip(_)
LStrip(n) ==
  IF n # <<>> /\ Head(n) = " " THEN LStrip(Tail(n)) ELSE n

RECURSIVE RStrip(_)
RStrip(n) ==
  IF n # <<>> /\ n[Len(n)] = " " THEN RStrip(SubSeq(n, 1, Len(n) - 1)) ELSE n

Strip(n) ==
  RStrip(LStrip(n))

\* sorted() on a set of nouns
RECURSIVE SortedNames(_)
SortedNames(S) ==
  IF S = {} THEN <<>>
  ELSE LET m == CHOOSE n \in S : \A o \in S : o = n \/ StrLess(n, o)
       IN  <<m>> \o SortedNames(S \ {m})

\* the rows of the long file: well-formed JSON with the three required keys,
\* a numeric rating, and a category that may be missing or null (None)
ConvRows ==
  [noun : { <<"c","a","t">>, <<" ","c","a","t">>, <<"d","o","g">> },
   property : BaseProps,
   rating : 1..2,
   category : {None, Some("Pets"), Some("Zoo")}]

\* the values of the parameter on_duplicate
POLICIES ==
  {"last", "first", "mean"}

\* d.setdefault(k, v) as an assignment
SetDefaultOverwrites(d, k, v) ==
  Put(d, k, v)

\* d.setdefault(k, v)
SetDefault(d, k, v) ==
  IF k \in DOMAIN d THEN d ELSE Put(d, k, v)

\* d[k] of a defaultdict whose default is the empty dict or list
GetOrEmpty(d, k) ==
  IF k \in DOMAIN d THEN d[k] ELSE << >>

\* the keys of a dict in insertion order, after a store under k
KeysAfter(keys, k) ==
  IF k \in Range(keys) THEN keys ELSE Append(keys, k)

RECURSIVE SumSeq(_)
SumSeq(vals) ==
  IF vals = <<>> THEN 0 ELSE Head(vals) + SumSeq(Tail(vals))

\* statistics.mean(vals) as the fraction <<sum, count>>
Mean(vals) ==
  <<SumSeq(vals), Len(vals)>>

\* a rating stored as it is: the fraction <<rating, 1>>
Number(rating) ==
  <<rating, 1>>

\* {**a, **b}
Merge(a, b) ==
  [k \in DOMAIN a \cup DOMAIN b |-> IF k \in DOMAIN b THEN b[k] ELSE a[k]]

\* the state after line 74, the file src_path opened
InitConv ==
  /\ NoGame
  /\ \E rows \in SeqsUpTo(ConvRows, MaxRows), policy \in POLICIES, include \in BOOLEAN :
       conv = [pc |-> "reading", rows |-> rows, line_no |-> 1,
               on_duplicate |-> policy, include_category |-> include,
               prop_values |-> << >>, value_keys |-> <<>>,
               prop_lists |-> << >>, list_keys |-> <<>>,
               categories |-> << >>, rows_in |-> 0, properties_seen |-> {},
               out |-> <<>>, returned |-> <<>>]
  /\ loader = Idle /\ merge = Idle
  /\ traversal = Idle /\ classifier = Idle /\ categorizer = Idle

\* lines 77-124: one row of the file
ConvRow ==
  /\ conv.pc = "reading" /\ conv.line_no <= Len(conv.rows)
  /\ LET row == conv.rows[conv.line_no]
         noun == Strip(row.noun)
         prop == row.property
         rating == row.rating
         withCategory == conv.include_category /\ row.category # None
         values == GetOrEmpty(conv.prop_values, noun)
         lists == GetOrEmpty(conv.prop_lists, noun)
         stores == conv.on_duplicate \in {"last", "first"}
     IN  conv' = [conv EXCEPT
                    !.line_no = conv.line_no + 1,
                    !.rows_in = conv.rows_in + 1,
                    !.properties_seen = conv.properties_seen \cup {prop},
                    !.categories = IF withCategory
                                   THEN SetDefault(conv.categories, noun, row.category[1])
                                   ELSE conv.categories,
                    !.prop_values =
                       IF conv.on_duplicate = "last"
                       THEN Put(conv.prop_values, noun, Put(values, prop, Number(rating)))
                       ELSE IF conv.on_duplicate = "first"
                       THEN Put(conv.prop_values, noun, SetDefault(values, prop, Number(rating)))
                       ELSE conv.prop_values,
                    !.value_keys = IF stores THEN KeysAfter(conv.value_keys, noun)
                                   ELSE conv.value_keys,
                    !.prop_lists =
                       IF conv.on_duplicate = "mean"
                       THEN Put(conv.prop_lists, noun,
                                Put(lists, prop, Append(GetOrEmpty(lists, prop), rating)))
                       ELSE conv.prop_lists,
                    !.list_keys = IF stores THEN conv.list_keys
                                  ELSE KeysAfter(conv.list_keys, noun)]
  /\ UNCHANGED <<dataVars, letterVars, attrVars, question_count, pc, typed, guess, transcript,
                 answers, loader, merge, traversal, classifier, categorizer>>

\* lines 126-130: the end of the file, the means of the policy 'mean'
ConvFinalize ==
  /\ conv.pc = "reading" /\ conv.line_no > Len(conv.rows)
  /\ conv' = IF conv.on_duplicate = "mean"
             THEN [conv EXCEPT
                     !.pc = "write",
                     !.prop_values = [noun \in DOMAIN conv.prop_lists |->
                                        [prop \in DOMAIN conv.prop_lists[noun] |->
                                           Mean(conv.prop_lists[noun][prop])]],
                     !.value_keys = conv.list_keys]
             ELSE [conv EXCEPT !.pc = "write"]
  /\ UNCHANGED <<dataVars, letterVars, attrVars, question_count, pc, typed, guess, transcript,
                 answers, loader, merge, traversal, classifier, categorizer>>

\* lines 136-138: the record of a noun
WideRecord(noun) ==
  LET record == Merge([k \in {"noun"} |-> noun], conv.prop_values[noun])
  IN  IF conv.include_category /\ noun \in DOMAIN conv.categories
      THEN Put(record, "_meta", Some(conv.categories[noun]))
      ELSE record

\* lines 132-141: the output file and the returned summary
ConvWrite ==
  /\ conv.pc = "write"
  /\ \E sort_output \in BOOLEAN :
       LET nouns == IF sort_output THEN SortedNames(DOMAIN conv.prop_values)
                    ELSE conv.value_keys
       IN  conv' = [conv EXCEPT
                      !.pc = "written",
                      !.out = [i \in 1..Len(nouns) |-> WideRecord(nouns[i])],
                      !.returned = <<conv.rows_in, Len(nouns),
                                     Cardinality(conv.properties_seen)>>]
  /\ UNCHANGED <<dataVars, letterVars, attrVars, question_count, pc, typed, guess, transcript,
                 answers, loader, merge, traversal, classifier, categorizer>>

NextConv ==
  ConvRow \/ ConvFinalize \/ ConvWrite

\* convert_long_to_wide_jsonl
SpecConv ==
  InitConv /\ [][NextConv]_vars

\* ------------------------------------- make_single_file_from_nouns.py
\* the bound on the non-empty lines of nouns.txt
MaxLines == 2

\* the bound on the rows of noun_categories_phi.csv
MaxClassified == 2

\* the nouns of the two files
MergeNouns ==
  { <<"c","a","t">>, <<"C","a","t">>, <<"d","o","g">> }

PETS == <<"P","e","t","s">>
ZOO == <<"Z","o","o">>

\* "Uncategorized"
UNCATEGORIZED ==
  <<"U","n","c","a","t","e","g","o","r","i","z","e","d">>

\* the rows of noun_categories_phi.csv; None is an empty category cell
ClassifiedRows ==
  [noun : MergeNouns, category : {None, Some(PETS), Some(ZOO)}]

\* str.strip().str.lower()
Key(n) ==
  Lower(Strip(n))

\* drop_duplicates("__key", keep="first") on the rows of a frame
RECURSIVE DropDuplicates(_, _)
DropDuplicates(rows, seen) ==
  IF rows = <<>> THEN <<>>
  ELSE IF Head(rows).key \in seen THEN DropDuplicates(Tail(rows), seen)
  ELSE <<Head(rows)>> \o DropDuplicates(Tail(rows), seen \cup {Head(rows).key})

\* left.merge(right, on="__key", how="left"): every left row with each right
\* row of its key, in the order of the right frame; with None if there is none
RECURSIVE LeftMerge(_, _)
LeftMerge(left, right) ==
  IF left = <<>> THEN <<>>
  ELSE LET l == Head(left)
           matches == SelectSeq(right, LAMBDA r : r.key = l.key)
           joined == [i \in 1..Len(matches) |->
                        [noun |-> l.noun, key |-> l.key, category |-> matches[i].category]]
       IN  (IF matches = <<>>
            THEN << [noun |-> l.noun, key |-> l.key, category |-> None] >>
            ELSE joined) \o LeftMerge(Tail(left), right)

\* fillna("Uncategorized") on the column category
FillNa(rows) ==
  [i \in 1..Len(rows) |->
     [noun |-> rows[i].noun,
      category |-> IF rows[i].category = None THEN UNCATEGORIZED ELSE rows[i].category[1]]]

\* the order of sort_values(["noun", "category"])
RowLess(a, b) ==
  StrLess(a.noun, b.noun) \/ (a.noun = b.noun /\ StrLess(a.category, b.category))

RECURSIVE InsertRow(_, _)
InsertRow(sorted, row) ==
  IF sorted = <<>> THEN <<row>>
  ELSE IF RowLess(row, Head(sorted)) THEN <<row>> \o sorted
  ELSE <<Head(sorted)>> \o InsertRow(Tail(sorted), row)

RECURSIVE SortRows(_)
SortRows(rows) ==
  IF rows = <<>> THEN <<>> ELSE InsertRow(SortRows(Tail(rows)), Head(rows))

\* the state after line 32: the stripped non-empty lines of nouns.txt
InitMerge ==
  /\ NoGame
  /\ \E nouns_list \in SeqsUpTo(MergeNouns, MaxLines),
        classified \in SeqsUpTo(ClassifiedRows, MaxClassified) :
       merge = [pc |-> "loaded", nouns_list |-> nouns_list, classified |-> classified,
                nouns_df |-> <<>>, merged |-> <<>>, out_df |-> <<>>]
  /\ loader = Idle /\ conv = Idle
  /\ traversal = Idle /\ classifier = Idle /\ categorizer = Idle

\* lines 34-35: nouns.txt is empty
MergeEmpty ==
  /\ merge.pc = "loaded" /\ merge.nouns_list = <<>>
  /\ merge' = [merge EXCEPT !.pc = "exit"]
  /\ UNCHANGED <<dataVars, letterVars, attrVars, question_count, pc, typed, guess, transcript,
                 answers, loader, conv, traversal, classifier, categorizer>>

\* lines 37-52: the frame of the nouns, without the duplicates of a key
MergeDedupe ==
  /\ merge.pc = "loaded" /\ merge.nouns_list # <<>>
  /\ LET frame == [i \in 1..Len(merge.nouns_list) |->
                     [noun |-> merge.nouns_list[i], key |-> Key(merge.nouns_list[i])]]
     IN  merge' = [merge EXCEPT !.pc = "deduped", !.nouns_df = DropDuplicates(frame, {})]
  /\ UNCHANGED <<dataVars, letterVars, attrVars, question_count, pc, typed, guess, transcript,
                 answers, loader, conv, traversal, classifier, categorizer>>

\* lines 58-73: the classified rows keyed, merged and filled
MergeJoin ==
  /\ merge.pc = "deduped"
  /\ LET cls == [i \in 1..Len(merge.classified) |->
                   [key |-> Key(merge.classified[i].noun),
                    category |-> merge.classified[i].category]]
     IN  merge' = [merge EXCEPT !.pc = "merged",
                                !.merged = FillNa(LeftMerge(merge.nouns_df, cls))]
  /\ UNCHANGED <<dataVars, letterVars, attrVars, question_count, pc, typed, guess, transcript,
                 answers, loader, conv, traversal, classifier, categorizer>>

\* lines 75-77: nouns_all.csv
MergeWrite ==
  /\ merge.pc = "merged"
  /\ merge' = [merge EXCEPT !.pc = "written", !.out_df = SortRows(merge.merged)]
  /\ UNCHANGED <<dataVars, letterVars, attrVars, question_count, pc, typed, guess, transcript,
                 answers, loader, conv, traversal, classifier, categorizer>>

NextMerge ==
  MergeEmpty \/ MergeDedupe \/ MergeJoin \/ MergeWrite

\* make_single_file_from_nouns.py
SpecMerge ==
  InitMerge /\ [][NextMerge]_vars

\* ------------------- main_new.py, parse_categories.py: the category tree
\* the bound on the depth of the trees of categories_tree.json
MaxDepth == 2

\* the bound on the questions shown during a traversal
MaxPrompts == 3

\* the category labels of the leaves
LABELS ==
  {"Animals", "Tools"}

\* the trees of depth at most d: a leaf is a label (a str in the file, the
\* record [Label |-> ...] here), a question node has a YES and a NO subtree
RECURSIVE TreesUpTo(_)
TreesUpTo(d) ==
  IF d = 0 THEN [Label : LABELS]
  ELSE LET smaller == TreesUpTo(d - 1)
       IN  smaller \cup [Question : {"q"}, YES : smaller, NO : smaller]

\* isinstance(node, str)
IsLabel(node) ==
  "Label" \in DOMAIN node

\* what the user may type at a question of the tree
TreeInputs ==
  { <<"1">>, <<"0">>, <<" ","1">>, <<"N","O">> }

\* input(...).strip().lower()
Normalized(tok) ==
  Lower(Strip(tok))

\* an answer that is not 0 or 1 taken as a no
BranchOrNo(node, answer) ==
  IF answer = <<"1">> THEN node.YES ELSE node.NO

\* lines 15-21: the node after the answer
Branch(node, answer) ==
  IF answer = <<"1">> THEN node.YES
  ELSE IF answer = <<"0">> THEN node.NO
  ELSE node

\* the state after line 12: node = questions
InitTree ==
  /\ NoGame
  /\ \E questions \in TreesUpTo(MaxDepth) :
       traversal = [pc |-> "walking", questions |-> questions, node |-> questions,
                    prompts |-> <<>>, inputs |-> <<>>, selected_category |-> "None"]
  /\ loader = Idle /\ conv = Idle /\ merge = Idle
  /\ classifier = Idle /\ categorizer = Idle

\* lines 13-21: one iteration of the loop, a question and its answer
TreeAnswer ==
  /\ traversal.pc = "walking" /\ ~IsLabel(traversal.node)
  /\ Len(traversal.prompts) < MaxPrompts
  /\ \E tok \in TreeInputs :
       traversal' = [traversal EXCEPT
                       !.prompts = Append(traversal.prompts, traversal.node),
                       !.inputs = Append(traversal.inputs, tok),
                       !.node = Branch(traversal.node, Normalized(tok))]
  /\ UNCHANGED <<gameVars, loader, conv, merge, classifier, categorizer>>

\* lines 13, 23: the node is a label, the loop ends
TreeSelect ==
  /\ traversal.pc = "walking" /\ IsLabel(traversal.node)
  /\ traversal' = [traversal EXCEPT !.pc = "selected",
                                    !.selected_category = traversal.node.Label]
  /\ UNCHANGED <<gameVars, loader, conv, merge, classifier, categorizer>>

NextTree ==
  TreeAnswer \/ TreeSelect

\* the traversal of the category tree
SpecTree ==
  InitTree /\ [][NextTree]_vars

\* ================================================================ claims
\* the remaining candidates that have a value for property p
HavingValue(p) ==
  { n \in remaining_nouns : p \in DOMAIN noun_data[n] }

\* the yes group of the question q among the remaining candidates with a value
YesGroup(q) ==
  { n \in HavingValue(q.best_property) :
      IF q.best_type = "binary"
      THEN noun_data[n][q.best_property] = 1
      ELSE noun_data[n][q.best_property] > q.best_threshold[1] }

NoGroup(q) ==
  HavingValue(q.best_property) \ YesGroup(q)

\* the values the remaining candidates record for property p
ValuesPresent(p) ==
  { noun_data[n][p] : n \in HavingValue(p) }

\* C1: whenever best_question of main_new.py returns a property, the split it
\* stands for has a non-empty yes group and a non-empty no group among the
\* candidates that have a value for it, for boolean and for scale properties.
C1_BothSidesNonEmpty ==
  (script = "main_new" /\ pc = "await") =>
    (YesGroup(question) # {} /\ NoGroup(question) # {})

\* C2: the candidate set after a filtering step is a subset of the candidate set
\* before it, in main_new.py and in the letter game: it never grows.
C2_CandidatesNeverGrow ==
  [][/\ remaining_nouns' \subseteq remaining_nouns
     /\ Range(candidates') \subseteq Range(candidates)
     /\ Len(candidates') <= Len(candidates)]_vars

\* a filtering step of main_new.py has removed some, not all, candidates
C2_Witness ==
  /\ script = "main_new" /\ pc = "loop" /\ question_count >= 1
  /\ remaining_nouns # {}
  /\ remaining_nouns # DOMAIN noun_data

\* C3: best_question of main_new.py never returns a property that is in
\* asked_properties; over a session asked_properties only grows and no property
\* is the subject of two questions.
C3_NeverAskedTwice ==
  [][script = "main_new" =>
       /\ asked_properties \subseteq asked_properties'
       /\ (pc = "loop" /\ pc' = "await") => question'.best_property \notin asked_properties
       /\ \A i, j \in 1..Len(transcript') : transcript'[i] = transcript'[j] => i = j]_vars

\* a second question is asked while the first property is in asked_properties
C3_Witness ==
  /\ script = "main_new" /\ pc = "await"
  /\ Len(transcript) = 2
  /\ asked_properties = {transcript[1]}

\* C4: the questions and the final guess of main_new.py are determined by the
\* data and the answers. A run's state is a function of the data and the answers
\* exactly if, in every state, the question returned and the member guessed are
\* the same for every iteration order the sets properties and remaining_nouns can
\* have.
C4_Deterministic ==
  script = "main_new" =>
    /\ pc = "await" =>
         \A order \in Perms(properties(noun_data)), it \in Perms(remaining_nouns) :
           best_question(noun_data, it, asked_properties, order) = question
    /\ pc = "done" => \A g \in remaining_nouns : g = guess

\* C5 as stated: a session that starts with one candidate issues no question,
\* keeps the turn counter at 0 and guesses that candidate.
C5_SingleCandidateCounterZero ==
  Cardinality(DOMAIN noun_data) = 1 =>
    /\ transcript = <<>>
    /\ question_count = 0
    /\ pc = "done" => guess \in DOMAIN noun_data

\* C5 amended: a session that starts with one candidate issues no question and
\* guesses that candidate; the turn counter is 0 until the guess and stays 0 in
\* main_new.py, while the letter game numbers the guess itself, ending at 1.
C5_SingleCandidate ==
  Cardinality(DOMAIN noun_data) = 1 =>
    /\ transcript = <<>>
    /\ pc \in {"loop", "done"}
    /\ asked_properties = {} /\ asked_letters = {} /\ asked_categories = {}
    /\ pc = "loop" => question_count = 0
    /\ pc = "done" =>
         /\ guess \in DOMAIN noun_data
         /\ question_count = IF script = "letter" THEN 1 ELSE 0

\* the letter game has made its guess from a single candidate
C5_Witness ==
  /\ Cardinality(DOMAIN noun_data) = 1
  /\ script = "letter" /\ pc = "done"
  /\ guess \in DOMAIN noun_data

\* the thresholds among the values of a scale property with two non-empty sides
ValidThresholds(values) ==
  { v \in { values[i][2] : i \in 1..Len(values) } :
      0 < CountGreater(values, v) /\ CountGreater(values, v) < Len(values) }

\* |yes - no| of the threshold v
Imbalance(values, v) ==
  Abs(2 * CountGreater(values, v) - Len(values))

\* C6: for a scale property best_question considers every distinct value present
\* as threshold, the smallest included, and retains a split of minimum |yes - no|
\* among the thresholds with two non-empty sides.
C6_EveryDistinctThreshold ==
  (script = "main_new" /\ pc = "loop") =>
    \A p \in properties(noun_data) \ asked_properties :
      property_types[p] = "scale" =>
        \A it \in Perms(remaining_nouns) :
          LET values == ValuesOf(noun_data, it, p)
              kept == ScaleBranch(NoBest, p, values)
          IN  ValidThresholds(values) # {} =>
                /\ kept.best_property = p
                /\ \A v \in ValidThresholds(values) :
                     kept.best_split_score[1] <= Imbalance(values, v)

\* C7: a property for which all remaining candidates that have a value share one
\* single value is skipped by best_question, so it is never the question asked.
C7_SharedValueSkipped ==
  (script = "main_new" /\ pc = "await") =>
    Cardinality(ValuesPresent(question.best_property)) # 1

\* the remaining candidates as a list, for the name-pattern selectors
RemainingList ==
  SelectSeq(FileOrder, LAMBDA n : n \in remaining_nouns)

\* C8: when the attribute selector returns no question while more than one
\* candidate remains and fewer than 19 turns were used, the session reaches its
\* final guess only if the name-pattern fallback has no question either.
C8_FallbackBeforeGuess ==
  (/\ script = "main_new" /\ pc = "done"
   /\ Cardinality(remaining_nouns) > 1 /\ question_count < 19) =>
    /\ select_best_letter_question(RemainingList, {}) = None
    /\ select_category_question(RemainingList, {}) = None

\* C9: in the filtering step of main_new.py a candidate without a recorded value
\* for the asked property is kept when the answer is no and removed when it is
\* yes, for boolean and for scale questions.
C9_MissingValueKeptOnNo ==
  [][(script = "main_new" /\ pc = "await" /\ typed' \in {"1", "2"}) =>
       \A n \in remaining_nouns :
         question.best_property \notin DOMAIN noun_data[n] =>
           (n \in remaining_nouns' <=> typed' = "2")]_vars

\* the two tokens a script documents in its prompt
AcceptedTokens ==
  IF script = "letter" THEN {"1", "0"} ELSE {"1", "2"}

\* C10: while a question awaits its answer, an input that is neither accepted
\* token leaves the candidates, the asked sets and the turn counter unchanged
\* and the same question keeps waiting.
C10_MalformedReprompts ==
  [][(pc = "await" /\ typed' \notin AcceptedTokens) =>
       /\ pc' = "await"
       /\ UNCHANGED <<remaining_nouns, candidates, asked_properties, asked_letters,
                      asked_categories, question_count, question, result>>]_vars

\* the number of candidates of the running game
NumCandidates ==
  IF script = "letter" THEN Len(candidates) ELSE Cardinality(remaining_nouns)

\* C11: a session prints at most 19 questions; a question is printed only in a
\* turn that starts with the counter below 19 and more than one candidate, and
\* after the final guess nothing more happens
C11_AtMostNineteenQuestions ==
  [][ /\ Len(transcript') <= 19
      /\ Len(transcript') > Len(transcript)
           => question_count < 19 /\ NumCandidates > 1 /\ pc = "loop"
      /\ pc # "done" ]_vars

\* C11: a session of main_new.py that ends after 19 questions with two
\* candidates and a property never asked
C11_Witness ==
  /\ script = "main_new" /\ pc = "done"
  /\ Len(transcript) = 19 /\ question_count = 19
  /\ Cardinality(remaining_nouns) > 1
  /\ asked_properties # properties(noun_data)
  /\ guess \in remaining_nouns

\* C12: at the end of a session of main_new.py the guess is one of the remaining
\* candidates when there is one, and "unknown" when there is none; a session
\* whose candidate set is empty is at the loop head, about to guess, or ended
C12_GuessFromRemaining ==
  script = "main_new" =>
    /\ pc = "done" /\ remaining_nouns # {} => guess \in remaining_nouns
    /\ pc = "done" /\ remaining_nouns = {} => guess = UNKNOWN
    /\ remaining_nouns = {} => pc \in {"loop", "done"}
    /\ remaining_nouns = {} /\ pc = "loop" => ENABLED NewGuess

\* C12: a session whose answers removed every candidate ends with "unknown"
C12_Witness ==
  /\ script = "main_new" /\ pc = "done"
  /\ remaining_nouns = {} /\ noun_data # << >>
  /\ Len(transcript) > 0
  /\ guess = UNKNOWN

\* the candidates left when the session ended
FinalCandidates ==
  IF script = "letter" THEN Range(candidates) ELSE remaining_nouns

\* C13: a session that ends with several candidates before its 19 questions are
\* used, for want of a question, guesses the candidate that no other candidate
\* precedes in lexicographic order
C13_FirstMemberGuessed ==
  (/\ pc = "done"
   /\ Cardinality(FinalCandidates) > 1
   /\ Len(transcript) < 19) =>
    /\ guess \in FinalCandidates
    /\ \A n \in FinalCandidates : ~StrLess(n, guess)

\* the number of candidates on the yes side of each letter predicate
LetterYes ==
  [k \in 1..Len(LETTER_STRATEGY) |->
     Cardinality({ i \in 1..Len(candidates) : LetterTest(LETTER_STRATEGY[k], candidates[i]) })]

\* the letter predicates not asked yet that have two non-empty sides
SplittingLetters(yes) ==
  { k \in 1..Len(LETTER_STRATEGY) :
      /\ LETTER_STRATEGY[k].key \notin asked_letters
      /\ yes[k] > 0 /\ yes[k] < Len(candidates) }

\* the smaller side of predicate j over its larger side is below that of k
WorseSplit(yes, j, k) ==
  LET n == Len(candidates)
  IN  Min(yes[j], n - yes[j]) * Max(yes[k], n - yes[k])
        < Min(yes[k], n - yes[k]) * Max(yes[j], n - yes[j])

\* the predicate the claim describes: none has a better split, and those
\* listed before it have a worse one
BestLetters(yes, splitting) ==
  { k \in splitting :
      /\ \A j \in splitting : ~WorseSplit(yes, k, j)
      /\ \A j \in splitting : j < k => WorseSplit(yes, j, k) }

\* C14: select_best_letter_question returns the unasked predicate with two
\* non-empty sides whose min/max ratio is greatest, the earliest of
\* LETTER_STRATEGY among equals, with its two sides; it returns nothing exactly
\* when no unasked predicate has two non-empty sides
C14_BestLetterQuestion ==
  script = "letter" =>
    LET r == select_best_letter_question(candidates, asked_letters)
        yes == LetterYes
        splitting == SplittingLetters(yes)
        best == BestLetters(yes, splitting)
    IN  /\ r = None <=> splitting = {}
        /\ r # None =>
              /\ Cardinality(best) = 1
              /\ \A k \in best :
                    /\ LETTER_STRATEGY[k].key = r[1].key
                    /\ Len(r[1].yes_nouns) = yes[k]
                    /\ Len(r[1].no_nouns) = Len(candidates) - yes[k]
              /\ r[1].kind = "LETTER"
        /\ pc = "await" /\ result[1].kind = "LETTER" => result = r

\* C14: a letter question is printed that passed over an earlier predicate with
\* a worse split, with another splitting predicate listed after it
C14_Witness ==
  /\ script = "letter" /\ pc = "await" /\ result[1].kind = "LETTER"
  /\ LET yes == LetterYes
         splitting == SplittingLetters(yes)
     IN  \E k \in BestLetters(yes, splitting) :
           /\ LETTER_STRATEGY[k].key = result[1].key
           /\ \E j \in splitting : j < k /\ WorseSplit(yes, j, k)
           /\ \E j \in splitting : j > k

\* C15: in the letter game a turn prints a category question only if no unasked
\* letter predicate splits the candidates of that turn, and a letter question
\* whenever one does
C15_CategoryOnlyWithoutLetter ==
  [][ (script = "letter" /\ Len(transcript') > Len(transcript)) =>
        /\ result'[1].kind \in {"LETTER", "CATEGORY"}
        /\ result'[1].kind = "CATEGORY" <=> SplittingLetters(LetterYes) = {}
        /\ result'[1].kind = "CATEGORY" => result'[1].key \in Range(CATEGORY_KEYS)
        /\ result'[1].kind = "LETTER" =>
              \E k \in SplittingLetters(LetterYes) : LETTER_STRATEGY[k].key = result'[1].key ]_vars

\* C15: a category question is printed after letter questions, with several
\* candidates that no letter predicate left splits
C15_Witness ==
  /\ script = "letter" /\ pc = "await" /\ result[1].kind = "CATEGORY"
  /\ Len(transcript) > 1
  /\ Len(candidates) > 2
  /\ SplittingLetters(LetterYes) = {}

\* C16: a category question is printed only if the smaller of its two groups
\* holds at least 15% of the candidates of the turn:
\* 100 * min(yes, no) >= 15 * (yes + no)
C16_SmallerSideFifteenPercent ==
  (script = "letter" /\ pc = "await" /\ result[1].kind = "CATEGORY") =>
    /\ result = select_category_question(candidates, asked_categories)
    /\ 100 * Min(Len(result[1].yes_nouns), Len(result[1].no_nouns))
         >= 15 * (Len(result[1].yes_nouns) + Len(result[1].no_nouns))

\* the value v agrees with the answer ans to the question q
Consistent(q, ans, v) ==
  IF q.best_type = "binary"
  THEN (ans = 1 /\ v = 1) \/ (ans # 1 /\ v = 0)
  ELSE (ans = 1 /\ v > q.best_threshold[1]) \/ (ans # 1 /\ v <= q.best_threshold[1])

\* C17: in main_new.py every remaining candidate, for every question answered
\* so far, has no value for the property of the question or a value that
\* agrees with the answer given
C17_RemainingConsistentWithAnswers ==
  script = "main_new" =>
    \A n \in remaining_nouns :
      \A i \in 1..Len(answers) :
        LET q == answers[i].question
        IN  \/ q.best_property \notin DOMAIN noun_data[n]
            \/ Consistent(q, answers[i].answer, noun_data[n][q.best_property])

\* C17: after a boolean and a scale question, one answered yes and one no,
\* a candidate remains
C17_Witness ==
  /\ script = "main_new" /\ pc \in {"loop", "done"}
  /\ Len(answers) = 2
  /\ \E i, j \in 1..Len(answers) :
       /\ answers[i].question.best_type = "binary"
       /\ answers[j].question.best_type = "continuous"
       /\ answers[i].answer # answers[j].answer
       /\ 1 \in {answers[i].answer, answers[j].answer}
  /\ remaining_nouns # {}

\* the records loaded so far
Loaded ==
  SubSeq(loader.filtered_data, 1, loader.i - 1)

\* C18: the loading of main_new.py completes only if every record has a rating
\* that fits the kind it declares for its property (0 or 1 for a boolean one)
\* and no property is declared with two kinds; and the kind recorded for a
\* property is the one of the first record that declared it
C18_LoadRejectsInconsistent ==
  loader.pc \in {"loading", "loaded"} =>
    /\ loader.pc = "loaded" =>
          \A a, b \in 1..Len(loader.filtered_data) :
            LET x == loader.filtered_data[a]
                y == loader.filtered_data[b]
            IN  /\ x.property_type = "boolean" => x.rating \in {0, 1}
                /\ x.property = y.property => x.property_type = y.property_type
    /\ \A a \in 1..Len(Loaded) :
          (\A b \in 1..(a - 1) : Loaded[b].property # Loaded[a].property)
            => loader.property_types[Loaded[a].property] = Loaded[a].property_type

\* the rows of the long file that rate the property p of the noun n
RowsOf(n, p) ==
  { k \in 1..Len(conv.rows) : Strip(conv.rows[k].noun) = n /\ conv.rows[k].property = p }

\* the rows of the long file that give a category to the noun n
CategoryRowsOf(n) ==
  { k \in 1..Len(conv.rows) : Strip(conv.rows[k].noun) = n /\ conv.rows[k].category # None }

FirstOf(K) ==
  CHOOSE k \in K : \A j \in K : k <= j

LastOf(K) ==
  CHOOSE k \in K : \A j \in K : j <= k

RECURSIVE SumRatings(_)
SumRatings(K) ==
  IF K = {} THEN 0 ELSE conv.rows[FirstOf(K)].rating + SumRatings(K \ {FirstOf(K)})

\* the written value v is the one the policy promises for the rows K
PolicyValue(v, K) ==
  CASE conv.on_duplicate = "last" -> v[1] = conv.rows[LastOf(K)].rating * v[2]
    [] conv.on_duplicate = "first" -> v[1] = conv.rows[FirstOf(K)].rating * v[2]
    [] conv.on_duplicate = "mean" -> v[1] * Cardinality(K) = SumRatings(K) * v[2]

C20_OneRowPerNoun ==
  merge.pc = "written" =>
    LET keys == { Key(merge.nouns_list[i]) : i \in 1..Len(merge.nouns_list) }
        classified == { Key(merge.classified[i].noun) : i \in 1..Len(merge.classified) }
    IN  /\ Len(merge.out_df) = Cardinality(keys)
        /\ Len(merge.out_df) = Len(merge.nouns_df)
        /\ \A k \in keys :
              Cardinality({ i \in 1..Len(merge.out_df) : Key(merge.out_df[i].noun) = k }) = 1
        /\ \A i \in 1..Len(merge.out_df) :
              Key(merge.out_df[i].noun) \notin classified
                => merge.out_df[i].category = UNCATEGORIZED

\* the remaining candidates whose value for property p is above v
Above(p, v) ==
  { n \in HavingValue(p) : noun_data[n][p] > v }

\* |yes - no| of the threshold v of property p on the remaining candidates
ImbalanceOf(p, v) ==
  Abs(2 * Cardinality(Above(p, v)) - Cardinality(HavingValue(p)))

\* the values of property p that leave candidates on both sides
SplittingValues(p) ==
  { v \in ValuesPresent(p) : Above(p, v) # {} /\ Above(p, v) # HavingValue(p) }

\* C21: when a scale question is asked and another threshold of its property,
\* with two non-empty sides, has the same imbalance as the one asked, the yes
\* group of the threshold asked is the smaller of the two
C21_TieKeepsSmallerYesGroup ==
  (script = "main_new" /\ pc = "await" /\ question.best_type = "continuous") =>
    LET p == question.best_property
        t == question.best_threshold[1]
    IN  \A v \in SplittingValues(p) :
          ImbalanceOf(p, v) = ImbalanceOf(p, t)
            => Cardinality(Above(p, t)) <= Cardinality(Above(p, v))

\* the imbalances |yes - no| of the splits of property p that leave remaining
\* candidates on both sides
ValidImbalances(p) ==
  IF property_types[p] = "boolean"
  THEN LET yes == Cardinality({ n \in HavingValue(p) : noun_data[n][p] = 1 })
           no == Cardinality({ n \in HavingValue(p) : noun_data[n][p] = 0 })
       IN  IF yes > 0 /\ no > 0 THEN {Abs(yes - no)} ELSE {}
  ELSE { ImbalanceOf(p, v) : v \in SplittingValues(p) }

\* the imbalance of the question q
QuestionImbalance(q) ==
  Abs(Cardinality(YesGroup(q)) - Cardinality(NoGroup(q)))

\* C22: the question asked by main_new.py has two non-empty sides, and no
\* property not yet asked has a split with two non-empty sides of strictly
\* lower imbalance
C22_MinimumScoreAmongValid ==
  (script = "main_new" /\ pc = "await") =>
    /\ QuestionImbalance(question) \in ValidImbalances(question.best_property)
    /\ \A p \in properties(noun_data) \ asked_properties :
          \A s \in ValidImbalances(p) : QuestionImbalance(question) <= s

\* C23: the reference noun of a scale question of main_new.py is a remaining
\* candidate whose recorded value for the property asked is the threshold asked
C23_ReferenceHasThreshold ==
  (script = "main_new" /\ pc = "await" /\ question.best_type = "continuous") =>
    /\ question.best_reference # None /\ question.best_threshold # None
    /\ question.best_reference[1] \in remaining_nouns
    /\ question.best_property \in DOMAIN noun_data[question.best_reference[1]]
    /\ noun_data[question.best_reference[1]][question.best_property]
         = question.best_threshold[1]

\* C23: a scale question is asked that took the place of a boolean property
\* examined before it in the same call
C23_Witness ==
  /\ script = "main_new" /\ pc = "await" /\ question.best_type = "continuous"
  /\ prop_order = <<"fast", "size">>
  /\ asked_properties = {}
  /\ HavingValue("fast") # {}
  /\ question.best_property = "size"
  /\ question.best_reference[1] \in remaining_nouns

\* the answers 0 and 1 among the inputs, as typed after strip and lower
ValidAnswers(inputs) ==
  SelectSeq([i \in 1..Len(inputs) |-> Normalized(inputs[i])],
            LAMBDA a : a \in {<<"0">>, <<"1">>})

\* the node reached from the node t along the answers of path; a label reached
\* before the end of the path is not a node of the path
RECURSIVE Follow(_, _)
Follow(t, path) ==
  IF path = <<>> THEN t
  ELSE IF IsLabel(t) THEN [Question |-> "none"]
  ELSE Follow(IF Head(path) = <<"1">> THEN t.YES ELSE t.NO, Tail(path))

\* C24: in the traversal of the category tree an answer other than 0 and 1
\* leaves the node as it is, and the same question is shown again; 1 moves to
\* the YES child and 0 to the NO child; the traversal ends exactly at a label,
\* which is the leaf that the valid answers lead to from the root, as many
\* answers as the leaf is deep
C24_TreeTraversal ==
  [][ traversal.pc = "walking" =>
        LET node == traversal.node
            answer == Normalized(traversal'.inputs[Len(traversal'.inputs)])
        IN  IF IsLabel(node)
            THEN /\ traversal'.pc = "selected"
                 /\ traversal'.selected_category = node.Label
                 /\ traversal'.inputs = traversal.inputs
                 /\ Follow(traversal.questions, ValidAnswers(traversal.inputs)) = node
            ELSE /\ traversal'.pc = "walking"
                 /\ traversal'.prompts = Append(traversal.prompts, node)
                 /\ answer = <<"1">> => traversal'.node = node.YES
                 /\ answer = <<"0">> => traversal'.node = node.NO
                 /\ answer \notin {<<"0">>, <<"1">>} => traversal'.node = node ]_vars

\* C24: a category two levels down is selected after three questions, one of
\* them shown twice for an answer that was neither 0 nor 1
C24_Witness ==
  /\ traversal.pc = "selected"
  /\ Len(traversal.prompts) = 3
  /\ Len(ValidAnswers(traversal.inputs)) = 2
  /\ \E i \in 1..2 : traversal.prompts[i] = traversal.prompts[i + 1]
  /\ traversal.selected_category \in LABELS

\* C25: in the letter game every answer to a letter or category question
\* leaves fewer candidates, and at least one; a game that starts with a
\* candidate never has an empty list and ends with a guess
C25_AnswersReduceNeverEmpty ==
  [][ script = "letter" =>
        /\ pc = "await" =>
              /\ Len(candidates') < Len(candidates)
              /\ Len(candidates') > 0
              /\ Range(candidates') \subseteq Range(candidates)
        /\ DOMAIN noun_data # {} => candidates' # <<>>
        /\ pc' = "done" /\ DOMAIN noun_data # {} => guess' \in Range(candidates') ]_vars

\* C25: a letter game ends after a letter and a category question were
\* answered, with a candidate left
C25_Witness ==
  /\ script = "letter" /\ pc = "done"
  /\ asked_letters # {} /\ asked_categories # {}
  /\ Len(candidates) >= 1 /\ Len(candidates) < Cardinality(DOMAIN noun_data)
  /\ guess \in Range(candidates)

\* C26: in main.py the turn counter counts the questions shown and answered,
\* and the empty result of best_question is never added to asked_properties
C26_TurnsAreAnsweredQuestions ==
  script = "main" =>
    /\ question_count = Len(answers)
    /\ NoneProp \notin asked_properties

\* C27: at the loop head the turn counter is the number of identifiers asked:
\* the asked properties in main_new.py, the asked letter keys and category
\* keys in the letter game
C27_CounterIsNumberAsked ==
  pc = "loop" =>
    /\ script = "main_new" => question_count = Cardinality(asked_properties)
    /\ script = "letter" =>
          question_count = Cardinality(asked_letters) + Cardinality(asked_categories)

\* C27: the loop head of a letter game after a letter and a category question
C27_Witness ==
  /\ script = "letter" /\ pc = "loop"
  /\ asked_letters # {} /\ asked_categories # {}
  /\ question_count = Cardinality(asked_letters) + Cardinality(asked_categories)
  /\ question_count = Len(transcript)

\* the iterations of the question loop run so far; the letter game counts its
\* final guess as one more question
Iterations ==
  IF script = "letter" /\ pc = "done" /\ guess # None
  THEN question_count - 1
  ELSE question_count

\* C28: a session of main_new.py, of main.py or of the letter game never runs
\* more than 19 iterations of its question loop, and unless an answer is
\* malformed it reaches its final guess
C28_SessionsTerminate ==
  /\ [](Iterations <= 19)
  /\ [](pc # "crashed") => <>(pc = "done")

\* C28: a session of main.py ends after 19 iterations with two candidates
C28_Witness ==
  /\ script = "main" /\ pc = "done"
  /\ question_count = 19
  /\ Cardinality(remaining_nouns) > 1
  /\ guess \in remaining_nouns

\* ------------------------------------------------------ classify_nouns.py
\* the bound on the lines of nouns.txt
MaxBatchNouns == 3

\* the bound on the items of a model response
MaxItems == 2

\* BATCH_SIZE, 50 in the source, scaled to the lists of the model
BATCH_SIZE == 2

\* CONFIDENCE_THRESHOLD = 0.5; confidences are counted in tenths
CONFIDENCE_THRESHOLD == 5

\* the lines of nouns.txt
BatchNouns ==
  {"cat", "dog"}

\* read_categories: the allowed list
ALLOWED ==
  {"animal"}

\* the "confidence" of an item as the model wrote it, in tenths: missing or
\* not a number (None), or a number inside or outside [0, 1]
RawConfidences ==
  {None, Some(0 - 5), Some(3), Some(7), Some(15)}

\* the items of a response: "noun" may be a noun of the batch, another noun
\* or empty, "category" may be outside the allowed list
Items ==
  [noun : BatchNouns \cup {""}, category : ALLOWED \cup {"bogus"},
   confidence : RawConfidences]

\* what parse_or_fix_json makes of a response: None when the request fails
\* or the text is not a JSON object with a list "items", else the items
Responses(n) ==
  {None} \cup { Some(items) : items \in SeqsUpTo(Items, n) }

\* conf = float(conf), 0.0 on an exception
Float(conf) ==
  IF conf = None THEN 0 ELSE conf[1]

\* max(0.0, min(1.0, conf))
Clamp(conf) ==
  IF conf < 0 THEN 0 ELSE IF conf > 10 THEN 10 ELSE conf

\* lines 119-128: the items of the batch response that are kept
RECURSIVE BatchOut(_)
BatchOut(items) ==
  IF items = <<>> THEN <<>>
  ELSE LET item == Head(items)
           kept == IF item.noun # "" /\ item.category \in ALLOWED
                   THEN <<[noun |-> item.noun, category |-> item.category,
                           confidence |-> Clamp(Float(item.confidence))]>>
                   ELSE <<>>
       IN  kept \o BatchOut(Tail(items))

\* lines 141-159: the entry of one noun in the per-item fallback
SingleOut(noun, response) ==
  IF response # None /\ response[1] # <<>> /\ response[1][1].category \in ALLOWED
  THEN [noun |-> noun, category |-> response[1][1].category,
        confidence |-> Clamp(Float(response[1][1].confidence))]
  ELSE [noun |-> noun, category |-> "", confidence |-> 0]

\* nouns[i:i+BATCH_SIZE]
Slice(nouns, i) ==
  SubSeq(nouns, i + 1, IF i + BATCH_SIZE < Len(nouns) THEN i + BATCH_SIZE ELSE Len(nouns))

InitClassify ==
  /\ NoGame
  /\ \E nouns \in SeqsUpTo(BatchNouns, MaxBatchNouns) :
       classifier = [pc |-> "classifying", nouns |-> nouns, i |-> 0, results |-> <<>>,
                     batch |-> <<>>, out |-> <<>>, mapped |-> <<>>, unmapped |-> {}]
  /\ loader = Idle /\ conv = Idle /\ merge = Idle
  /\ traversal = Idle /\ categorizer = Idle

\* lines 172-175 and 112-138: the next batch and the response to its prompt;
\* classify_batch returns the kept items unless there is none
ClassifyBatch ==
  /\ classifier.pc = "classifying" /\ classifier.i < Len(classifier.nouns)
  /\ \E response \in Responses(MaxItems) :
       \E out \in {IF response = None THEN <<>> ELSE BatchOut(response[1])} :
         IF out # <<>>
         THEN classifier' = [classifier EXCEPT
                               !.batch = Slice(classifier.nouns, classifier.i),
                               !.out = out,
                               !.results = classifier.results \o out,
                               !.i = classifier.i + BATCH_SIZE]
         ELSE classifier' = [classifier EXCEPT
                               !.pc = "fallback",
                               !.batch = Slice(classifier.nouns, classifier.i),
                               !.out = <<>>]
  /\ UNCHANGED <<gameVars, loader, conv, merge, traversal, categorizer>>

\* lines 140-161 and 175: one noun of the per-item fallback; after the last
\* noun classify_batch returns and main extends results
ClassifySingle ==
  /\ classifier.pc = "fallback"
  /\ \E response \in Responses(1) :
       \E out \in {Append(classifier.out,
                          SingleOut(classifier.batch[Len(classifier.out) + 1], response))} :
         IF Len(out) < Len(classifier.batch)
         THEN classifier' = [classifier EXCEPT !.out = out]
         ELSE classifier' = [classifier EXCEPT
                               !.pc = "classifying",
                               !.out = out,
                               !.results = classifier.results \o out,
                               !.i = classifier.i + BATCH_SIZE]
  /\ UNCHANGED <<gameVars, loader, conv, merge, traversal, categorizer>>

\* lines 179-191: the split and the files; sorted(set(unmapped)) is kept as
\* the set of its lines
ClassifyWrite ==
  /\ classifier.pc = "classifying" /\ classifier.i >= Len(classifier.nouns)
  /\ classifier' = [classifier EXCEPT
                      !.pc = "written",
                      !.mapped = SelectSeq(classifier.results, LAMBDA r : r.category # ""),
                      !.unmapped = { classifier.results[k].noun :
                                       k \in { j \in 1..Len(classifier.results) :
                                                 \/ classifier.results[j].category = ""
                                                 \/ classifier.results[j].confidence
                                                      < CONFIDENCE_THRESHOLD } }]
  /\ UNCHANGED <<gameVars, loader, conv, merge, traversal, categorizer>>

NextClassify ==
  ClassifyBatch \/ ClassifySingle \/ ClassifyWrite

\* classify_nouns.py
SpecClassify ==
  InitClassify /\ [][NextClassify]_vars

\* the nouns of the entries of a list of results
NounsOf(rows) ==
  { rows[k].noun : k \in 1..Len(rows) }

\* C29: every noun of the batches classified so far is among the results,
\* and once the files are written every input noun is a mapped row, with an
\* allowed category and a confidence within [0, 1], or a line of
\* unmapped_nouns.txt
C29_EveryNounAccounted ==
  classifier.pc \in {"classifying", "written"} =>
    /\ \A k \in 1..Len(classifier.nouns) :
         k <= classifier.i => classifier.nouns[k] \in NounsOf(classifier.results)
    /\ classifier.pc = "written" =>
         \A noun \in Range(classifier.nouns) :
           \/ \E k \in 1..Len(classifier.mapped) :
                /\ classifier.mapped[k].noun = noun
                /\ classifier.mapped[k].category \in ALLOWED
                /\ classifier.mapped[k].confidence \in 0..10
           \/ noun \in classifier.unmapped

\* ----------------------------------------------------- noun_categorizer.py
\* the bound on the nouns given to categorize_nouns
MaxInputNouns == 3

\* the bound on the lines of a response that are not blank
MaxResponseLines == 2

\* the parameter batch_size, 25 by default, scaled to the lists of the model
batch_size == 2

\* the nouns of the input; Cat and cat differ in case only
InputNouns ==
  {<<"c","a","t">>, <<"C","a","t">>, <<"d","o","g">>}

Fruits == <<"F","r">>
Trees == <<"T","r">>
Other == <<"o","t","h","e","r">>

\* the lists of categories, with and without 'other'
CategoryLists ==
  {<<Fruits, Trees, Other>>, <<Fruits, Trees>>}

\* what a line holds after the '|': a category name, a name in another
\* case, a part of a name, or a name that is not in the list
CategoryTexts ==
  {Fruits, <<"f","r">>, Trees, <<"t">>, Other, <<"z">>}

\* a line without '|' or a comment line
NoPipe ==
  [pipe |-> FALSE, noun |-> <<>>, category |-> <<>>]

\* the lines of a response, stripped: noun|category, or a line that is skipped
ResponseLines ==
  [pipe : {TRUE}, noun : InputNouns, category : CategoryTexts] \cup {NoPipe}

\* the sequences without a repeated member
DistinctSeqs(S, n) ==
  { q \in SeqsUpTo(S, n) : \A i, j \in 1..Len(q) : q[i] = q[j] => i = j }

\* list.index(x)
Index(list, x) ==
  CHOOSE i \in 1..Len(list) : list[i] = x /\ \A j \in 1..(i - 1) : list[j] # x

\* lines 178-190: the category the text stands for, None when there is none
MatchedCategory(categories, category) ==
  LET exact == SelectSeq(categories, LAMBDA cat : Lower(cat) = Lower(category))
      partial == SelectSeq(categories,
                           LAMBDA cat : \/ IsSubstr(Lower(category), Lower(cat))
                                        \/ IsSubstr(Lower(cat), Lower(category)))
  IN  IF exact # <<>> THEN Some(exact[1])
      ELSE IF partial # <<>> THEN Some(partial[1])
      ELSE None

\* if original_noun not in categorized[matched_category]: ...append(original_noun)
AppendIfNew(categorized, cat, x) ==
  IF x \in Range(categorized[cat]) THEN categorized
  ELSE [categorized EXCEPT ![cat] = Append(categorized[cat], x)]

\* lines 165-204: one line of the response
ParseLine(categorized, batch, categories, line) ==
  LET batch_lower == [k \in 1..Len(batch) |-> Lower(batch[k])]
      noun == Lower(line.noun)
  IN  IF ~line.pipe \/ noun \notin Range(batch_lower) THEN categorized
      ELSE LET matched_category == MatchedCategory(categories, line.category)
               original_noun == batch[Index(batch_lower, noun)]
           IN  IF matched_category # None
               THEN AppendIfNew(categorized, matched_category[1], original_noun)
               ELSE IF Other \in Range(categories)
               THEN AppendIfNew(categorized, Other, original_noun)
               ELSE categorized

\* for line in response.split('\n')
RECURSIVE ParseLines(_, _, _, _)
ParseLines(categorized, batch, categories, lines) ==
  IF lines = <<>> THEN categorized
  ELSE Once(LAMBDA c : ParseLines(c, batch, categories, Tail(lines)),
            ParseLine(categorized, batch, categories, Head(lines)))

\* lines 209-216: the nouns of the batch that are in no list
Unassigned(categorized, batch) ==
  SelectSeq(batch, LAMBDA noun : \A cat \in DOMAIN categorized :
                                    noun \notin Range(categorized[cat]))

\* lines 224-227: for noun in uncategorized: append to 'other' if not there
RECURSIVE AddToOther(_, _)
AddToOther(categorized, uncategorized) ==
  IF uncategorized = <<>> THEN categorized
  ELSE Once(LAMBDA c : AddToOther(c, Tail(uncategorized)),
            AppendIfNew(categorized, Other, Head(uncategorized)))

\* lines 89-94
InitCategorize ==
  /\ NoGame
  /\ \E nouns \in DistinctSeqs(InputNouns, MaxInputNouns), categories \in CategoryLists :
       categorizer = [pc |-> "batches", nouns |-> nouns, categories |-> categories, i |-> 0,
                      categorized |-> [cat \in Range(categories) |-> <<>>],
                      uncategorized |-> <<>>]
  /\ loader = Idle /\ conv = Idle /\ merge = Idle
  /\ traversal = Idle /\ classifier = Idle

\* lines 96-216: one iteration of the loop over the batches
CategorizeBatch ==
  /\ categorizer.pc = "batches" /\ categorizer.i < Len(categorizer.nouns)
  /\ \E lines \in SeqsUpTo(ResponseLines, MaxResponseLines) :
       \E batch \in {SubSeq(categorizer.nouns, categorizer.i + 1,
                            Min(categorizer.i + batch_size, Len(categorizer.nouns)))} :
         \E categorized \in {ParseLines(categorizer.categorized, batch,
                                        categorizer.categories, lines)} :
           categorizer' = [categorizer EXCEPT
                             !.categorized = categorized,
                             !.uncategorized = categorizer.uncategorized
                                                 \o Unassigned(categorized, batch),
                             !.i = categorizer.i + batch_size]
  /\ UNCHANGED <<gameVars, loader, conv, merge, traversal, classifier>>

\* lines 219-233: the uncategorized nouns go to 'other' if there is one
CategorizeReturn ==
  /\ categorizer.pc = "batches" /\ categorizer.i >= Len(categorizer.nouns)
  /\ categorizer' = [categorizer EXCEPT
                       !.pc = "returned",
                       !.categorized =
                          IF categorizer.uncategorized # <<>>
                             /\ Other \in DOMAIN categorizer.categorized
                          THEN AddToOther(categorizer.categorized, categorizer.uncategorized)
                          ELSE categorizer.categorized]
  /\ UNCHANGED <<gameVars, loader, conv, merge, traversal, classifier>>

NextCategorize ==
  CategorizeBatch \/ CategorizeReturn

\* noun_categorizer.py
SpecCategorize ==
  InitCategorize /\ [][NextCategorize]_vars

\* the categories whose list holds the noun
CategoriesOf(categorized, noun) ==
  { cat \in DOMAIN categorized : noun \in Range(categorized[cat]) }

\* C30: when 'other' is among the categories, every noun given to
\* categorize_nouns is in the list of exactly one category of the result
C30_ExactlyOneCategory ==
  (categorizer.pc = "returned" /\ Other \in Range(categorizer.categories)) =>
    \A noun \in Range(categorizer.nouns) :
      Cardinality(CategoriesOf(categorizer.categorized, noun)) = 1
====
